---- MODULE Spec2Model ----
(***************************************************************************)
(* Catalog back-fill of nautilus_trader/adapters/_template/historic.py:    *)
(* back_fill_catalog, request_data, request_tick_data, request_bar_data    *)
(* and _determine_next_timestamp, as a state machine whose steps are the   *)
(* provider calls and the catalog accesses of a run.                       *)
(*                                                                         *)
(* Time is counted in ticks of half a second; an instant is an integer     *)
(* number of ticks since the epoch (UTC), a calendar date an integer       *)
(* number of days since the epoch, day 0 being a Monday.                   *)
(***************************************************************************)
EXTENDS Integers, Sequences, FiniteSets, TLC

VARIABLES
    provider,        \* the behaviour of the data provider behind `client`
    args,            \* the arguments of back_fill_catalog
    catInstruments,  \* catalog: ids of the instruments written
    catPartitions,   \* catalog: the partitions written
    writes,          \* every write_objects call, in order
    pc,              \* pc[r]: where run r stands
    di, ii, ki,      \* di[r], ii[r], ki[r]: position in the three for loops
    data,            \* data[r]: the accumulator of the paginator
    end_time,        \* end_time[r]: the cursor of request_bar_data
    calls,           \* calls[r]: the provider calls run r has issued
    response,        \* response[r]: the page the last provider call returned
    outcomes,        \* outcomes[r]: how each window run r reached has ended
    trade_id,        \* the call of generate_trade_id: its arguments and its result
    parsed           \* the call of parse_response_datetime: arguments and result

vars == <<provider, args, catInstruments, catPartitions, writes, pc, di, ii, ki,
          data, end_time, calls, response, outcomes, trade_id, parsed>>

Runs == {1, 2}

----------------------------------------------------------------------------
(* Bounds of the model *)

\* longest page a provider answers with when it may answer with any page
MaxPage == 2

\* largest page size of a provider that holds a store of records
MaxP == 3

\* most days from the first date to the last date of a run
MaxSpan == 3

\* most ticks of one timestamp on the page of a stuck provider
MaxStuck == 3

\* most decimal digits of the ts_event passed to generate_trade_id
MaxTsDigits == 19

\* most characters of the price and of the size passed to generate_trade_id
MaxField == 16

----------------------------------------------------------------------------
(* Time, time zones and calendar dates *)

\* pd.Timedelta(seconds=1), in ticks
OneSecond == 2

\* datetime.timedelta(days=1), in ticks (a day of four seconds)
OneDay == 8

TzNames == {"UTC", "EST"}

\* offset of local time from UTC (local = UTC + offset); EST is behind UTC
UtcOffset(tz_name) == IF tz_name = "UTC" THEN 0 ELSE 0 - OneSecond

\* pd.Timestamp(date, tz=tz_name).tz_convert("UTC"): local midnight of date
LocalMidnight(date, tz_name) == date * OneDay - UtcOffset(tz_name)

\* pd.Timestamp(t).astimezone(tz_name).date(): the local calendar date of t
LocalDate(t, tz_name) == (t + UtcOffset(tz_name)) \div OneDay

\* t.strftime("%Y%m%d %H:%M:%S %Z"): the instant cut to whole seconds
Strftime(t) == t - (t % OneSecond)

\* weekday of a date, 0 = Monday .. 6 = Sunday
Weekday(date) == date % 7

\* a bug: every day of the range is taken, Saturdays and Sundays too
RECURSIVE BDateRange_EveryDay(_, _)
BDateRange_EveryDay(start_date, end_date) ==
    IF start_date > end_date THEN <<>>
    ELSE <<start_date>> \o BDateRange_EveryDay(start_date + 1, end_date)

\* pd.bdate_range(start_date, end_date, tz=tz_name): the Monday-to-Friday days
RECURSIVE BDateRange(_, _)
BDateRange(start_date, end_date) ==
    IF start_date > end_date THEN <<>>
    ELSE (IF Weekday(start_date) < 5 THEN <<start_date>> ELSE <<>>)
         \o BDateRange(start_date + 1, end_date)

----------------------------------------------------------------------------
(* Sequences *)

InSeq(x, s) == \E i \in DOMAIN s : s[i] = x

Last(s) == s[Len(s)]

SeqSet(s) == {s[i] : i \in DOMAIN s}

NoDuplicates(s) == \A i, j \in DOMAIN s : i # j => s[i] # s[j]

\* all sequences over S of length at most n
SeqsUpTo(S, n) == UNION {[1..k -> S] : k \in 0..n}

----------------------------------------------------------------------------
(* Kind tokens: a token is the tuple of its dash-separated fields *)

TRADES == <<"TRADES">>
BID_ASK == <<"BID_ASK">>
BARS_1_MINUTE_LAST == <<"BARS", "1", "MINUTE", "LAST">>

\* a token that is none of the kinds
DEPTH == <<"DEPTH">>

\* kind in ("TRADES", "BID_ASK")
IsTickKind(kind) == kind \in {TRADES, BID_ASK}

\* kind.split("-")[0] == "BARS"
IsBarKind(kind) == Len(kind) >= 1 /\ kind[1] = "BARS"

----------------------------------------------------------------------------
(* The window a run is working on *)

Days == BDateRange(args.start_date, args.end_date)

Date(r) == Days[di[r]]
Instrument(r) == args.instruments[ii[r]]
Kind(r) == args.kinds[ki[r]]

Window(r) == [instrument |-> Instrument(r), kind |-> Kind(r), day |-> Date(r)]

----------------------------------------------------------------------------
(* The provider: _request_historical_ticks and _request_historical_bars *)

\* the first P tick records stamped at or after the cursor, oldest first
StoreTicks(recs, start_time, P) ==
    LET from == SelectSeq(recs, LAMBDA t : t.time >= start_time)
    IN  SubSeq(from, 1, IF Len(from) < P THEN Len(from) ELSE P)

\* the last P bars stamped at or before the end instant, oldest first
StoreBars(recs, end, P) ==
    LET upto == SelectSeq(recs, LAMBDA b : b.date <= end)
    IN  SubSeq(upto, IF Len(upto) < P THEN 1 ELSE Len(upto) - P + 1, Len(upto))

\* the pages a policy allows: any page of a set, or one fixed page
PolicyPages(policy) ==
    IF policy.type = "any" THEN policy.pages ELSE {policy.page}

\* the pages the provider may answer a tick query with
ProviderTicks(instrument, start_time, what) ==
    IF provider.ticks.type = "store"
    THEN {StoreTicks(provider.ticks.recs, start_time, provider.ticks.P)}
    ELSE PolicyPages(provider.ticks)

\* the pages the provider may answer a bar query with
ProviderBars(instrument, end, bar_spec) ==
    IF provider.bars.type = "store"
    THEN {StoreBars(provider.bars.recs, end, provider.bars.P)}
    ELSE PolicyPages(provider.bars)

\* a provider that answers every call with the same page
Fixed(page) == [type |-> "fixed", page |-> page]

\* a provider that answers every call with any page of a set
AnyOf(pages) == [type |-> "any", pages |-> pages]

\* a provider that answers every call with any page of a set, or raises
Failing(pages) == [type |-> "any", pages |-> pages, raises |-> TRUE]

\* the provider may raise instead of answering
MayRaise(policy) == "raises" \in DOMAIN policy

----------------------------------------------------------------------------
(* _determine_next_timestamp *)

\* a bug: the day starts at midnight UTC whatever the time zone
DetermineNextTimestamp_UtcMidnight(timestamps, date, tz_name) ==
    IF timestamps = <<>> THEN date * OneDay
    ELSE IF Cardinality(SeqSet(timestamps)) = 1
         THEN timestamps[Len(timestamps)] + OneSecond
         ELSE timestamps[Len(timestamps)]

\* a bug: the second is added whether or not the timestamps differ
DetermineNextTimestamp_AlwaysStep(timestamps, date, tz_name) ==
    IF timestamps = <<>> THEN LocalMidnight(date, tz_name)
    ELSE timestamps[Len(timestamps)] + OneSecond

\* a bug: the first timestamp seen is taken for the last
DetermineNextTimestamp_First(timestamps, date, tz_name) ==
    IF timestamps = <<>> THEN LocalMidnight(date, tz_name)
    ELSE IF Cardinality(SeqSet(timestamps)) = 1
         THEN timestamps[1] + OneSecond
         ELSE timestamps[1]

DetermineNextTimestamp(timestamps, date, tz_name) ==
    IF timestamps = <<>> THEN LocalMidnight(date, tz_name)
    ELSE IF Cardinality(SeqSet(timestamps)) = 1
         THEN Last(timestamps) + OneSecond
         ELSE Last(timestamps)

----------------------------------------------------------------------------
(* request_tick_data: one iteration of its loop *)

TimesOf(ticks) == [i \in DOMAIN ticks |-> ticks[i].time]

\* a bug: ticks the accumulator holds are kept
NewTicks_NoDedup(ticks, acc) == ticks

\* ticks = [t for t in ticks if t not in data]
NewTicks(ticks, acc) == SelectSeq(ticks, LAMBDA t : ~InSeq(t, acc))

\* a bug: a last tick stamped with the cursor itself ends the loop
TickBreak_AtCursor(ticks, start_time) ==
    ticks = <<>> \/ ticks[Len(ticks)].time <= start_time

\* a bug: a last tick stamped before the cursor does not end the loop
TickBreak_EmptyOnly(ticks, start_time) == ticks = <<>>

\* if not ticks or ticks[-1].time < start_time: break
TickBreak(ticks, start_time) == ticks = <<>> \/ Last(ticks).time < start_time

\* a bug: the page is appended whole at the boundary of the day
TicksOfDate_Unfiltered(ticks, date, tz_name) == ticks

\* [tick for tick in ticks if pd.Timestamp(tick.time).astimezone(tz_name).date() == date]
TicksOfDate(ticks, date, tz_name) ==
    SelectSeq(ticks, LAMBDA t : LocalDate(t.time, tz_name) = date)

\* a bug: the loop is left at the day's boundary only
TickIteration_NoBreak(acc, page, start_time, date, tz_name) ==
    LET ticks == NewTicks(page, acc)
    IN  IF ticks # <<>> /\ LocalDate(Last(ticks).time, tz_name) # date
        THEN [data |-> acc \o TicksOfDate(ticks, date, tz_name), brk |-> TRUE]
        ELSE [data |-> acc \o ticks, brk |-> FALSE]

\* the accumulator after the page, and whether the loop is left
TickIteration(acc, page, start_time, date, tz_name) ==
    LET ticks == NewTicks(page, acc)
    IN  IF TickBreak(ticks, start_time)
        THEN [data |-> acc, brk |-> TRUE]
        ELSE IF LocalDate(Last(ticks).time, tz_name) # date
             THEN [data |-> acc \o TicksOfDate(ticks, date, tz_name), brk |-> TRUE]
             ELSE [data |-> acc \o ticks, brk |-> FALSE]

RequestTickData(r) ==
    /\ pc[r] = "tick"
    /\ LET start_time ==
             DetermineNextTimestamp(TimesOf(data[r]), Date(r), args.tz_name)
       IN  \E page \in ProviderTicks(Instrument(r), Strftime(start_time), Kind(r)) :
             LET it == TickIteration(data[r], page, start_time, Date(r), args.tz_name)
             IN  /\ calls' = [calls EXCEPT ![r] = Append(@,
                        [fn |-> "ticks", instrument |-> Instrument(r),
                         time |-> Strftime(start_time), cursor |-> start_time,
                         what |-> Kind(r), day |-> Date(r),
                         seen |-> Len(data[r])])]
                 /\ response' = [response EXCEPT ![r] = page]
                 /\ data' = [data EXCEPT ![r] = it.data]
                 /\ pc' = [pc EXCEPT ![r] = IF it.brk THEN "ret" ELSE "tick"]
    /\ UNCHANGED <<parsed, trade_id, provider, args, catInstruments, catPartitions, writes,
                   di, ii, ki, end_time, outcomes>>

----------------------------------------------------------------------------
(* parse_response_datetime: a datetime is its wall clock and its zone *)

\* the zone-aware datetime of an instant in a zone
Aware(t, zone) == [wall |-> t + UtcOffset(zone), zone |-> zone]

ParseResponseDatetime(dt, tz_name) ==
    IF dt.zone = "naive" THEN [wall |-> dt.wall, zone |-> tz_name] ELSE dt

\* dt.date(): the calendar date of the wall clock
DateOf(dt) == dt.wall \div OneDay

\* no call of parse_response_datetime
NoParse == [state |-> "none"]

\* lines 301-306: a pd.Timestamp is made a datetime.datetime of the same wall
\* clock and zone (to_pydatetime), then parsed
ParseResponseDatetimeCall ==
    /\ parsed.state = "called"
    /\ parsed' = [parsed EXCEPT
            !.state = "ended",
            !.result = [type |-> "datetime"] @@
                       ParseResponseDatetime([wall |-> parsed.dt.wall,
                                              zone |-> parsed.dt.zone],
                                             parsed.tz_name)]
    /\ UNCHANGED <<trade_id, provider, args, catInstruments, catPartitions, writes,
                   pc, di, ii, ki, data, end_time, calls, response, outcomes>>

----------------------------------------------------------------------------
(* request_bar_data: one iteration of its loop *)

\* a bug: bars of no volume are kept
QualifyingBars_KeepZero(bar_data_list, acc) ==
    SelectSeq(bar_data_list, LAMBDA bar : ~InSeq(bar, acc))

\* bars = [bar for bar in bar_data_list if bar not in data and bar.volume != 0]
QualifyingBars(bar_data_list, acc) ==
    SelectSeq(bar_data_list, LAMBDA bar : ~InSeq(bar, acc) /\ bar.volume # 0)

\* [bar for bar in bars if parse_response_datetime(bar.date, tz_name).date() == date]
\* (bar.date carries the zone the provider stamps its bars in)
BarsOfDate(bars, date, tz_name, zone) ==
    SelectSeq(bars, LAMBDA bar :
        DateOf(ParseResponseDatetime(Aware(bar.date, zone), tz_name)) = date)

\* a bug: the day ends at midnight UTC whatever the time zone
FirstEndTime_UtcMidnight(date, tz_name) == date * OneDay + OneDay

\* a bug: the day is not added
FirstEndTime_StartOfDay(date, tz_name) == LocalMidnight(date, tz_name)

\* end_time = start_time + datetime.timedelta(days=1)
FirstEndTime(date, tz_name) == LocalMidnight(date, tz_name) + OneDay

\* a bug: the end-instant is moved on a second, not back to the first bar
BarIteration_StepsForward(acc, bar_data_list, end, date, tz_name, zone) ==
    LET bars == QualifyingBars(bar_data_list, acc)
    IN  IF bars = <<>>
        THEN [data |-> acc, end_time |-> end, brk |-> TRUE]
        ELSE IF LocalDate(bars[1].date, tz_name) # date
             THEN [data |-> acc \o BarsOfDate(bars, date, tz_name, zone),
                   end_time |-> end, brk |-> TRUE]
             ELSE [data |-> acc \o bars, end_time |-> end + OneSecond, brk |-> FALSE]

\* the accumulator and the cursor after the page, and whether the loop is left
BarIteration(acc, bar_data_list, end, date, tz_name, zone) ==
    LET bars == QualifyingBars(bar_data_list, acc)
    IN  IF bars = <<>>
        THEN [data |-> acc, end_time |-> end, brk |-> TRUE]
        ELSE IF LocalDate(bars[1].date, tz_name) # date
             THEN [data |-> acc \o BarsOfDate(bars, date, tz_name, zone),
                   end_time |-> end, brk |-> TRUE]
             ELSE [data |-> acc \o bars, end_time |-> bars[1].date, brk |-> FALSE]

RequestBarData(r) ==
    /\ pc[r] = "bar"
    /\ \E page \in ProviderBars(Instrument(r), Strftime(end_time[r]), Kind(r)) :
         LET it == BarIteration(data[r], page, end_time[r], Date(r), args.tz_name,
                                provider.zone)
         IN  /\ calls' = [calls EXCEPT ![r] = Append(@,
                    [fn |-> "bars", instrument |-> Instrument(r),
                     time |-> Strftime(end_time[r]), cursor |-> end_time[r],
                     what |-> Kind(r), day |-> Date(r),
                         seen |-> Len(data[r])])]
             /\ response' = [response EXCEPT ![r] = page]
             /\ data' = [data EXCEPT ![r] = it.data]
             /\ end_time' = [end_time EXCEPT ![r] = it.end_time]
             /\ pc' = [pc EXCEPT ![r] = IF it.brk THEN "ret" ELSE "bar"]
    /\ UNCHANGED <<parsed, trade_id, provider, args, catInstruments, catPartitions, writes,
                   di, ii, ki, outcomes>>

----------------------------------------------------------------------------
(* generate_trade_id: a string is the sequence of its characters, the integer *)
(* ts_event the sequence of its decimal digits                                *)

\* the string of n characters c
Rep(c, n) == [i \in 1..n |-> c]

\* nanoseconds have nine decimal digits more than seconds
NanosDigits == 9

\* str(int(nanos_to_secs(ts_event))): the digits of ts_event but the last nine
NanosToSecs(ts_event) ==
    IF Len(ts_event) <= NanosDigits THEN <<"0">>
    ELSE SubSeq(ts_event, 1, Len(ts_event) - NanosDigits)

\* f"{int(nanos_to_secs(ts_event))}-{price}-{size}"
TradeIdValue(ts_event, price, size) ==
    NanosToSecs(ts_event) \o <<"-">> \o price \o <<"-">> \o size

\* TradeId(value): the identifier keeps the string it is given
TradeId(value) == [value |-> value]

\* assert len(id.value) < 36
TradeIdLimit == 36

\* a bug: the length is not asserted
GenerateTradeIdOf_NoAssert(ts_event, price, size) ==
    LET id == TradeId(TradeIdValue(ts_event, price, size))
    IN  [returned |-> TRUE, id |-> id]

\* what generate_trade_id ends with: the id returned, or the AssertionError
GenerateTradeIdOf(ts_event, price, size) ==
    LET id == TradeId(TradeIdValue(ts_event, price, size))
    IN  IF Len(id.value) < TradeIdLimit
        THEN [returned |-> TRUE, id |-> id]
        ELSE [returned |-> FALSE, raised |-> "AssertionError"]

\* no call of generate_trade_id
NoTradeId == [state |-> "none"]

GenerateTradeId ==
    /\ trade_id.state = "called"
    /\ trade_id' = [trade_id EXCEPT
            !.state = "ended",
            !.result = GenerateTradeIdOf(trade_id.ts_event, trade_id.price,
                                         trade_id.size)]
    /\ UNCHANGED <<parsed, provider, args, catInstruments, catPartitions, writes, pc,
                   di, ii, ki, data, end_time, calls, response, outcomes>>

----------------------------------------------------------------------------
(* The catalog: catalog.instruments, catalog.exists and write_objects *)

\* catalog.instruments(instrument_ids=[instrument.id.value], as_nautilus=True)
CatalogInstruments(instrument) == catInstruments \cap {instrument}

\* catalog.exists(instrument_id=instrument.id, kind=kind, date=date)
CatalogExists(instrument, kind, date) ==
    \E p \in catPartitions :
        p.instrument = instrument /\ p.kind = kind /\ p.day = date

\* the partition write_objects(catalog, chunk, basename_template) leaves
Partition(instrument, kind, date, chunk) ==
    [instrument |-> instrument, kind |-> kind, day |-> date, chunk |-> chunk]

\* parse_historic_trade_ticks, parse_historic_quote_ticks, parse_historic_bars
ParseHistoric(raw, instrument, kind) ==
    [i \in DOMAIN raw |->
        IF IsTickKind(kind)
        THEN [instrument_id |-> instrument, type |-> kind[1],
              ts_event |-> raw[i].time, price |-> raw[i].price]
        ELSE [instrument_id |-> instrument, type |-> kind[1],
              ts_event |-> raw[i].date, volume |-> raw[i].volume]]

\* BarSpecification.from_str(kind.split("-", maxsplit=1)[1]) accepts the rest
ValidBarSpec(kind) ==
    /\ Len(kind) = 4
    /\ kind[2] \in {"1", "5"}
    /\ kind[3] \in {"SECOND", "MINUTE"}
    /\ kind[4] \in {"LAST", "MID"}

----------------------------------------------------------------------------
(* back_fill_catalog and request_data *)

\* a bug: the run ends with the instruments of its first day
NextInstrument_FirstDayOnly(r) ==
    IF ii[r] < Len(args.instruments)
    THEN [pc |-> "instrument", di |-> di[r], ii |-> ii[r] + 1, ki |-> 1]
    ELSE [pc |-> "done", di |-> di[r], ii |-> ii[r], ki |-> ki[r]]

\* where the run stands once the kinds of line 126 are done with
NextInstrument(r) ==
    IF ii[r] < Len(args.instruments)
    THEN [pc |-> "instrument", di |-> di[r], ii |-> ii[r] + 1, ki |-> 1]
    ELSE IF di[r] < Len(Days)
         THEN [pc |-> "instrument", di |-> di[r] + 1, ii |-> 1, ki |-> 1]
         ELSE [pc |-> "done", di |-> di[r], ii |-> ii[r], ki |-> ki[r]]

NextKind(r) ==
    IF ki[r] < Len(args.kinds)
    THEN [pc |-> "kind", di |-> di[r], ii |-> ii[r], ki |-> ki[r] + 1]
    ELSE NextInstrument(r)

Goto(r, to) ==
    /\ pc' = [pc EXCEPT ![r] = to.pc]
    /\ di' = [di EXCEPT ![r] = to.di]
    /\ ii' = [ii EXCEPT ![r] = to.ii]
    /\ ki' = [ki EXCEPT ![r] = to.ki]

Outcome(r, what) ==
    outcomes' = [outcomes EXCEPT ![r] = Append(@,
        [instrument |-> Instrument(r), kind |-> Kind(r), day |-> Date(r),
         outcome |-> what])]

\* the call: the two outer for loops are entered (lines 120-121)
BackFillCatalog(r) ==
    /\ pc[r] = "idle"
    /\ Goto(r, IF Days = <<>> \/ args.instruments = <<>>
               THEN [pc |-> "done", di |-> 1, ii |-> 1, ki |-> 1]
               ELSE [pc |-> "instrument", di |-> 1, ii |-> 1, ki |-> 1])
    /\ UNCHANGED <<parsed, trade_id, provider, args, catInstruments, catPartitions, writes,
                   data, end_time, calls, response, outcomes>>

\* a bug: the instrument is never written
WriteInstrument_Skipped(r) ==
    /\ pc[r] = "instrument"
    /\ Goto(r, IF args.kinds = <<>> THEN NextInstrument(r)
               ELSE [pc |-> "kind", di |-> di[r], ii |-> ii[r], ki |-> 1])
    /\ UNCHANGED <<parsed, trade_id, provider, args, catInstruments, catPartitions,
                   writes, data, end_time, calls, response, outcomes>>

\* a bug: the instrument is written whether or not the catalog holds it
WriteInstrument_Unchecked(r) ==
    /\ pc[r] = "instrument"
    /\ catInstruments' = catInstruments \cup {Instrument(r)}
    /\ writes' = Append(writes, [run |-> r, instrument |-> Instrument(r),
                                 kind |-> <<"INSTRUMENT">>, day |-> Date(r)])
    /\ Goto(r, IF args.kinds = <<>> THEN NextInstrument(r)
               ELSE [pc |-> "kind", di |-> di[r], ii |-> ii[r], ki |-> 1])
    /\ UNCHANGED <<parsed, trade_id, provider, args, catPartitions, data, end_time, calls,
                   response, outcomes>>

\* lines 122-126: the instrument is written unless the catalog holds it
WriteInstrument(r) ==
    /\ pc[r] = "instrument"
    /\ IF CatalogInstruments(Instrument(r)) = {}
       THEN /\ catInstruments' = catInstruments \cup {Instrument(r)}
            /\ writes' = Append(writes, [run |-> r, instrument |-> Instrument(r),
                                         kind |-> <<"INSTRUMENT">>, day |-> Date(r)])
       ELSE UNCHANGED <<catInstruments, writes>>
    /\ Goto(r, IF args.kinds = <<>> THEN NextInstrument(r)
               ELSE [pc |-> "kind", di |-> di[r], ii |-> ii[r], ki |-> 1])
    /\ UNCHANGED <<parsed, trade_id, provider, args, catPartitions, data, end_time, calls, response,
                   outcomes>>

\* a bug: an existing partition ends the kinds of the instrument (break for continue)
SkipExisting_Break(r) ==
    /\ pc[r] = "kind"
    /\ CatalogExists(Instrument(r), Kind(r), Date(r))
    /\ Outcome(r, "skipped-existing")
    /\ Goto(r, NextInstrument(r))
    /\ UNCHANGED <<parsed, trade_id, provider, args, catInstruments, catPartitions, writes,
                   data, end_time, calls, response>>

\* lines 127-128: the window's partition exists, the kind is passed over
SkipExisting(r) ==
    /\ pc[r] = "kind"
    /\ CatalogExists(Instrument(r), Kind(r), Date(r))
    /\ Outcome(r, "skipped-existing")
    /\ Goto(r, NextKind(r))
    /\ UNCHANGED <<parsed, trade_id, provider, args, catInstruments, catPartitions, writes,
                   data, end_time, calls, response>>

\* lines 129-162: request_data picks the paginator of the kind, or raises
RequestDataFrom(r) ==
    /\ pc[r] = "kind"
    /\ data' = [data EXCEPT ![r] = <<>>]
    /\ IF IsTickKind(Kind(r))
       THEN /\ pc' = [pc EXCEPT ![r] = "tick"]
            /\ UNCHANGED <<end_time, outcomes>>
       ELSE IF IsBarKind(Kind(r)) /\ ValidBarSpec(Kind(r))
            THEN /\ pc' = [pc EXCEPT ![r] = "bar"]
                 /\ end_time' = [end_time EXCEPT ![r] =
                                   FirstEndTime(Date(r), args.tz_name)]
                 /\ UNCHANGED outcomes
            ELSE /\ pc' = [pc EXCEPT ![r] = "error"]
                 /\ Outcome(r, "raised")
                 /\ UNCHANGED end_time
    /\ UNCHANGED <<parsed, trade_id, provider, args, catInstruments, catPartitions, writes,
                   di, ii, ki, calls, response>>

\* a bug: a partition is written for a window nothing was fetched for
WriteData_WritesEmpty(r) ==
    /\ pc[r] = "ret"
    /\ Outcome(r, IF data[r] = <<>> THEN "skipped-empty" ELSE "written")
    /\ catPartitions' = catPartitions \cup
         {Partition(Instrument(r), Kind(r), Date(r),
                    ParseHistoric(data[r], Instrument(r), Kind(r)))}
    /\ writes' = Append(writes, [run |-> r, instrument |-> Instrument(r),
                                 kind |-> Kind(r), day |-> Date(r)])
    /\ Goto(r, NextKind(r))
    /\ data' = [data EXCEPT ![r] = <<>>]
    /\ response' = [response EXCEPT ![r] = <<>>]
    /\ end_time' = [end_time EXCEPT ![r] = 0]
    /\ UNCHANGED <<parsed, trade_id, provider, args, catInstruments, calls>>

\* lines 164-175 and 138-142: nothing fetched is passed over, the rest written;
\* the locals of the paginator are gone once it has returned
WriteData(r) ==
    /\ pc[r] = "ret"
    /\ IF data[r] = <<>>
       THEN /\ Outcome(r, "skipped-empty")
            /\ UNCHANGED <<catPartitions, writes>>
       ELSE /\ Outcome(r, "written")
            /\ catPartitions' = catPartitions \cup
                 {Partition(Instrument(r), Kind(r), Date(r),
                            ParseHistoric(data[r], Instrument(r), Kind(r)))}
            /\ writes' = Append(writes, [run |-> r, instrument |-> Instrument(r),
                                         kind |-> Kind(r), day |-> Date(r)])
    /\ Goto(r, NextKind(r))
    /\ data' = [data EXCEPT ![r] = <<>>]
    /\ response' = [response EXCEPT ![r] = <<>>]
    /\ end_time' = [end_time EXCEPT ![r] = 0]
    /\ UNCHANGED <<parsed, trade_id, provider, args, catInstruments, calls>>

\* a bug: the window is fetched whether or not its partition exists
RequestData_Unchecked(r) == RequestDataFrom(r)

\* lines 127-162: the kind of a window without partition is requested
RequestData(r) ==
    /\ ~CatalogExists(Instrument(r), Kind(r), Date(r))
    /\ RequestDataFrom(r)

\* a bug: what the paginator had accumulated is written when the provider raises
ProviderRaises_WritesPartial(r) ==
    /\ pc[r] \in {"tick", "bar"}
    /\ MayRaise(IF pc[r] = "tick" THEN provider.ticks ELSE provider.bars)
    /\ calls' = [calls EXCEPT ![r] = Append(@,
           [fn |-> IF pc[r] = "tick" THEN "ticks" ELSE "bars",
            instrument |-> Instrument(r),
            time |-> Strftime(IF pc[r] = "tick"
                              THEN DetermineNextTimestamp(TimesOf(data[r]), Date(r),
                                                          args.tz_name)
                              ELSE end_time[r]),
            cursor |-> IF pc[r] = "tick"
                       THEN DetermineNextTimestamp(TimesOf(data[r]), Date(r),
                                                   args.tz_name)
                       ELSE end_time[r],
            what |-> Kind(r), day |-> Date(r),
                         seen |-> Len(data[r])])]
    /\ Outcome(r, "raised")
    /\ pc' = [pc EXCEPT ![r] = "error"]
    /\ IF data[r] = <<>>
       THEN UNCHANGED <<catPartitions, writes>>
       ELSE /\ catPartitions' = catPartitions \cup
                 {Partition(Instrument(r), Kind(r), Date(r),
                            ParseHistoric(data[r], Instrument(r), Kind(r)))}
            /\ writes' = Append(writes, [run |-> r, instrument |-> Instrument(r),
                                         kind |-> Kind(r), day |-> Date(r)])
    /\ data' = [data EXCEPT ![r] = <<>>]
    /\ response' = [response EXCEPT ![r] = <<>>]
    /\ end_time' = [end_time EXCEPT ![r] = 0]
    /\ UNCHANGED <<parsed, trade_id, provider, args, catInstruments, di, ii, ki>>

\* lines 194-199 and 241-246: the provider raises; nothing catches the exception,
\* which leaves request_data and back_fill_catalog (lines 131-137)
ProviderRaises(r) ==
    /\ pc[r] \in {"tick", "bar"}
    /\ MayRaise(IF pc[r] = "tick" THEN provider.ticks ELSE provider.bars)
    /\ calls' = [calls EXCEPT ![r] = Append(@,
           [fn |-> IF pc[r] = "tick" THEN "ticks" ELSE "bars",
            instrument |-> Instrument(r),
            time |-> Strftime(IF pc[r] = "tick"
                              THEN DetermineNextTimestamp(TimesOf(data[r]), Date(r),
                                                          args.tz_name)
                              ELSE end_time[r]),
            cursor |-> IF pc[r] = "tick"
                       THEN DetermineNextTimestamp(TimesOf(data[r]), Date(r),
                                                   args.tz_name)
                       ELSE end_time[r],
            what |-> Kind(r), day |-> Date(r),
                         seen |-> Len(data[r])])]
    /\ Outcome(r, "raised")
    /\ pc' = [pc EXCEPT ![r] = "error"]
    /\ data' = [data EXCEPT ![r] = <<>>]
    /\ response' = [response EXCEPT ![r] = <<>>]
    /\ end_time' = [end_time EXCEPT ![r] = 0]
    /\ UNCHANGED <<parsed, trade_id, provider, args, catInstruments, catPartitions, writes,
                   di, ii, ki>>

----------------------------------------------------------------------------
(* The providers of the model *)

\* a tick is [time, price], a bar [date, volume]; in time order:
TickBefore(a, b) == a.time < b.time \/ (a.time = b.time /\ a.price < b.price)
BarBefore(a, b) == a.date < b.date \/ (a.date = b.date /\ a.volume < b.volume)

RECURSIVE SortTicks(_)
SortTicks(S) ==
    IF S = {} THEN <<>>
    ELSE LET m == CHOOSE x \in S : \A y \in S : x = y \/ TickBefore(x, y)
         IN  <<m>> \o SortTicks(S \ {m})

RECURSIVE SortBars(_)
SortBars(S) ==
    IF S = {} THEN <<>>
    ELSE LET m == CHOOSE x \in S : \A y \in S : x = y \/ BarBefore(x, y)
         IN  <<m>> \o SortBars(S \ {m})

\* a provider that holds records in time order and answers with at most P of them
Store(recs, P) == [type |-> "store", recs |-> recs, P |-> P]

\* day 8 (a Tuesday) is [64, 72) in UTC and [66, 74) in EST
PaginatorDates == {8}

\* any provider: pages of at most MaxPage records of a small universe
TickTimes == {63, 66, 67, 72}
TickUniverse == [time : TickTimes, price : {1}]
BarTimes == {62, 68, 72}
BarUniverse == [date : BarTimes, volume : {1}] \cup [date : {68}, volume : {0}]

\* stuck provider: the same N > 1 ticks of one timestamp on every call
StuckTimes == 60..76
StuckPages == {[i \in 1..n |-> [time |-> t, price |-> i]] : n \in 2..MaxStuck, t \in StuckTimes}

\* store provider: every set of records of a universe, and every page size
StoreTickUniverse == [time : {66, 67, 69, 73}, price : {1, 2}]
StoreBarUniverse == [date : {62, 68, 70, 72}, volume : {0, 1}]

TickProviders ==
    {AnyOf(SeqsUpTo(TickUniverse, MaxPage))}
    \cup {Fixed(page) : page \in StuckPages}
    \cup {Store(SortTicks(S), P) : S \in SUBSET StoreTickUniverse, P \in 1..MaxP}

BarProviders ==
    {AnyOf(SeqsUpTo(BarUniverse, MaxPage))}
    \cup {Store(SortBars(S), P) : S \in SUBSET StoreBarUniverse, P \in 1..MaxP}

----------------------------------------------------------------------------
(* request_tick_data and request_bar_data alone: one call for one window *)

PaginatorArgs(kinds) ==
    [instruments : {<<"A">>}, start_date : PaginatorDates, end_date : PaginatorDates,
     tz_name : TzNames, kinds : {<<k>> : k \in kinds}]

InitPaginator(at) ==
    /\ catInstruments = {"A"}
    /\ catPartitions = {}
    /\ writes = <<>>
    /\ pc = [r \in Runs |-> IF r = 1 THEN at ELSE "idle"]
    /\ di = [r \in Runs |-> 1]
    /\ ii = [r \in Runs |-> 1]
    /\ ki = [r \in Runs |-> 1]
    /\ data = [r \in Runs |-> <<>>]
    /\ calls = [r \in Runs |-> <<>>]
    /\ response = [r \in Runs |-> <<>>]
    /\ outcomes = [r \in Runs |-> <<>>]
    /\ trade_id = NoTradeId
    /\ parsed = NoParse

InitTick ==
    /\ provider \in [ticks : TickProviders, bars : {Fixed(<<>>)}, zone : {"UTC"}]
    /\ args \in PaginatorArgs({TRADES})
    /\ end_time = [r \in Runs |-> 0]
    /\ InitPaginator("tick")

InitBar ==
    /\ provider \in [ticks : {Fixed(<<>>)}, bars : BarProviders, zone : TzNames]
    /\ args \in PaginatorArgs({BARS_1_MINUTE_LAST})
    /\ end_time = [r \in Runs |-> IF r = 1
                                  THEN FirstEndTime(args.start_date, args.tz_name)
                                  ELSE 0]
    /\ InitPaginator("bar")

InitPage == InitTick \/ InitBar

NextPage == RequestTickData(1) \/ RequestBarData(1)

SpecPage == InitPage /\ [][NextPage]_vars

----------------------------------------------------------------------------
(* back_fill_catalog, run twice in sequence *)

\* Friday 4, Saturday 5, Sunday 6, Monday 7, ...
FillDates == 4..(4 + MaxSpan)

FillTicks == {[time |-> 35, price |-> 1], [time |-> 59, price |-> 1]}
FillBars == {[date |-> 35, volume |-> 1], [date |-> 59, volume |-> 1]}

FillProviders ==
    {[ticks |-> Fixed(<<>>), bars |-> Fixed(<<>>), zone |-> "UTC"],
     [ticks |-> AnyOf(SeqsUpTo(FillTicks, 1)), bars |-> AnyOf(SeqsUpTo(FillBars, 1)),
      zone |-> "UTC"],
     [ticks |-> Store(<<[time |-> 35, price |-> 1]>>, 1),
      bars |-> Store(<<[date |-> 59, volume |-> 1]>>, 1), zone |-> "UTC"],
     [ticks |-> Failing(SeqsUpTo(FillTicks, 1)),
      bars |-> Failing(SeqsUpTo(FillBars, 1)), zone |-> "UTC"]}

\* the kinds of a run: a bar kind, a tick kind before it, or a token of no kind
FillKinds ==
    {<<BARS_1_MINUTE_LAST>>, <<TRADES, BARS_1_MINUTE_LAST>>, <<TRADES, DEPTH>>}

\* no or one instrument with one or two kinds, or two instruments with one kind
FillArgs ==
    {a \in [instruments : {<<>>, <<"A">>, <<"A", "B">>},
            start_date : FillDates, end_date : FillDates, tz_name : TzNames,
            kinds : FillKinds] :
        Len(a.instruments) <= 1 \/ Len(a.kinds) = 1}

InitFill ==
    /\ provider \in FillProviders
    /\ args \in FillArgs
    /\ catInstruments = {}
    /\ catPartitions = {}
    /\ writes = <<>>
    /\ pc = [r \in Runs |-> "idle"]
    /\ di = [r \in Runs |-> 1]
    /\ ii = [r \in Runs |-> 1]
    /\ ki = [r \in Runs |-> 1]
    /\ data = [r \in Runs |-> <<>>]
    /\ end_time = [r \in Runs |-> 0]
    /\ calls = [r \in Runs |-> <<>>]
    /\ response = [r \in Runs |-> <<>>]
    /\ outcomes = [r \in Runs |-> <<>>]
    /\ trade_id = NoTradeId
    /\ parsed = NoParse

Step(r) ==
    \/ WriteInstrument(r)
    \/ SkipExisting(r)
    \/ RequestData(r)
    \/ RequestTickData(r)
    \/ RequestBarData(r)
    \/ ProviderRaises(r)
    \/ WriteData(r)

\* the second run is called when the first has returned
Next ==
    \/ BackFillCatalog(1)
    \/ pc[1] \in {"done", "error"} /\ BackFillCatalog(2)
    \/ \E r \in Runs : Step(r)

Spec == InitFill /\ [][Next]_vars

----------------------------------------------------------------------------
(* back_fill_catalog, run twice at the same time against one catalog *)

\* two runs of the same arguments over one day
InitConcurrent ==
    /\ InitFill
    /\ args.start_date = 4
    /\ args.end_date = 4
    /\ args.tz_name = "UTC"

\* the steps of the two runs interleave in any order
NextConcurrent == \E r \in Runs : BackFillCatalog(r) \/ Step(r)

SpecConcurrent == InitConcurrent /\ [][NextConcurrent]_vars

----------------------------------------------------------------------------
(* generate_trade_id alone: one call *)

\* ts_event: the integers of one to MaxTsDigits decimal digits 1
TsEvents == {Rep("1", n) : n \in 1..MaxTsDigits}

\* price and size: the strings of no to MaxField characters 9
Fields == {Rep("9", n) : n \in 0..MaxField}

InitTradeId ==
    /\ trade_id \in [state : {"called"}, ts_event : TsEvents, price : Fields,
                     size : Fields, result : {"none"}]
    /\ parsed = NoParse
    /\ provider = [ticks |-> Fixed(<<>>), bars |-> Fixed(<<>>), zone |-> "UTC"]
    /\ args = [instruments |-> <<>>, start_date |-> 4, end_date |-> 4,
               tz_name |-> "UTC", kinds |-> <<TRADES>>]
    /\ catInstruments = {}
    /\ catPartitions = {}
    /\ writes = <<>>
    /\ pc = [r \in Runs |-> "idle"]
    /\ di = [r \in Runs |-> 1]
    /\ ii = [r \in Runs |-> 1]
    /\ ki = [r \in Runs |-> 1]
    /\ data = [r \in Runs |-> <<>>]
    /\ end_time = [r \in Runs |-> 0]
    /\ calls = [r \in Runs |-> <<>>]
    /\ response = [r \in Runs |-> <<>>]
    /\ outcomes = [r \in Runs |-> <<>>]

NextTradeId == GenerateTradeId

SpecTradeId == InitTradeId /\ [][NextTradeId]_vars

----------------------------------------------------------------------------
(* parse_response_datetime alone: one call *)

\* wall clocks from the day before day 8 to the day after
ParseWalls == 56..79

\* a datetime.datetime or a pd.Timestamp, naive or aware of its zone
ParseInputs ==
    [type : {"datetime", "Timestamp"}, wall : ParseWalls,
     zone : {"naive"} \cup TzNames]

InitParse ==
    /\ parsed \in [state : {"called"}, dt : ParseInputs, tz_name : TzNames,
                   result : {"none"}]
    /\ trade_id = NoTradeId
    /\ provider = [ticks |-> Fixed(<<>>), bars |-> Fixed(<<>>), zone |-> "UTC"]
    /\ args = [instruments |-> <<>>, start_date |-> 4, end_date |-> 4,
               tz_name |-> "UTC", kinds |-> <<TRADES>>]
    /\ catInstruments = {}
    /\ catPartitions = {}
    /\ writes = <<>>
    /\ pc = [r \in Runs |-> "idle"]
    /\ di = [r \in Runs |-> 1]
    /\ ii = [r \in Runs |-> 1]
    /\ ki = [r \in Runs |-> 1]
    /\ data = [r \in Runs |-> <<>>]
    /\ end_time = [r \in Runs |-> 0]
    /\ calls = [r \in Runs |-> <<>>]
    /\ response = [r \in Runs |-> <<>>]
    /\ outcomes = [r \in Runs |-> <<>>]

NextParse == ParseResponseDatetimeCall

SpecParse == InitParse /\ [][NextParse]_vars

----------------------------------------------------------------------------
(* What the logs of a run tell *)

INSTRUMENT == <<"INSTRUMENT">>

WindowOf(x) == [instrument |-> x.instrument, kind |-> x.kind, day |-> x.day]

\* the windows whose partition run r has written
WrittenBy(r) ==
    {WindowOf(writes[i]) : i \in {j \in DOMAIN writes :
        writes[j].run = r /\ writes[j].kind # INSTRUMENT}}

\* the windows run r has queried the provider for
CalledBy(r) ==
    {[instrument |-> calls[r][i].instrument, kind |-> calls[r][i].what,
      day |-> calls[r][i].day] : i \in DOMAIN calls[r]}

\* the windows run r has ended with the outcome
EndedAs(r, what) ==
    {WindowOf(outcomes[r][i]) : i \in {j \in DOMAIN outcomes[r] :
        outcomes[r][j].outcome = what}}

\* the provider answers equal queries with equal pages
Deterministic == provider.ticks.type # "any" /\ provider.bars.type # "any"

----------------------------------------------------------------------------
(* C1: idempotent re-run *)

\* C1 as stated: a second run over the same arguments issues no provider call
\* and leaves the catalog as the first run left it.
C1_SecondRunIdle ==
    pc[2] = "done" =>
        /\ calls[2] = <<>>
        /\ \A i \in DOMAIN writes : writes[i].run = 1

\* C1 amended: the second run neither queries nor writes a window whose partition
\* the first run wrote; after a first run that has returned without exception it
\* writes no instrument, and it queries the provider again for exactly the
\* windows the first run fetched no records for; against a provider that answers
\* equal queries with equal pages it writes nothing, so the catalog is as the
\* first run left it.
C1_SecondRunSkipsWritten ==
    /\ CalledBy(2) \cap WrittenBy(1) = {}
    /\ WrittenBy(2) \cap WrittenBy(1) = {}
    /\ pc[1] = "done" =>
          \A i \in DOMAIN writes : writes[i].run = 2 => writes[i].kind # INSTRUMENT
    /\ pc[1] = "done" /\ pc[2] = "done" =>
          /\ CalledBy(2) = EndedAs(1, "skipped-empty")
          /\ Deterministic => \A i \in DOMAIN writes : writes[i].run = 1

C1_Witness ==
    /\ pc[2] = "done"
    /\ Deterministic
    /\ WrittenBy(1) # {}
    /\ calls[2] # <<>>

----------------------------------------------------------------------------
(* C2: a window whose partition exists is passed over *)

Position(r) == <<pc[r], di[r], ii[r], ki[r]>>

\* C2: the step a run takes at a window whose partition exists issues no provider
\* call and writes nothing, and leads to the next kind of the same day and
\* instrument when there is one.
C2_ExistingWindowSkipped ==
    [][\A r \in Runs :
          (/\ pc[r] = "kind"
           /\ CatalogExists(Instrument(r), Kind(r), Date(r))
           /\ Position(r)' # Position(r))
          => /\ calls' = calls
             /\ writes' = writes
             /\ catPartitions' = catPartitions
             /\ pc'[r] \notin {"tick", "bar"}
             /\ ki[r] < Len(args.kinds) =>
                   Position(r)' = <<"kind", di[r], ii[r], ki[r] + 1>>]_vars

C2_Witness ==
    \E r \in Runs : \E i \in DOMAIN outcomes[r] :
        /\ outcomes[r][i].outcome = "skipped-existing"
        /\ i < Len(outcomes[r])
        /\ outcomes[r][i + 1].day = outcomes[r][i].day
        /\ outcomes[r][i + 1].instrument = outcomes[r][i].instrument
        /\ outcomes[r][i + 1].kind # outcomes[r][i].kind
        /\ outcomes[r][i + 1].outcome = "written"

----------------------------------------------------------------------------
(* C10: a provider without bars *)

EmptyBarRun ==
    /\ Len(args.instruments) = 1
    /\ Len(args.kinds) = 1
    /\ IsBarKind(args.kinds[1])
    /\ provider.bars = Fixed(<<>>)

Weekdays == {d \in args.start_date..args.end_date : d % 7 \notin {5, 6}}

----------------------------------------------------------------------------
(* The paginators alone *)

TickRun == IsTickKind(Kind(1))
BarRun == IsBarKind(Kind(1))

\* the instant a record is stamped with
Stamp(x) == IF TickRun THEN x.time ELSE x.date

\* the local calendar date of a record in the time zone of the run
DayOfRecord(x) == LocalDate(Stamp(x), args.tz_name)

----------------------------------------------------------------------------
(* C3: no record of another day *)

\* C3: every record the paginator has accumulated, and so returns, is stamped
\* with an instant of the window's day in the time zone of the run.
C3_NoCrossDayLeak ==
    \A i \in DOMAIN data[1] : DayOfRecord(data[1][i]) = Date(1)

----------------------------------------------------------------------------
(* C4: no record twice *)

\* C4: the list a paginator returns holds no two equal records.
C4_NoDuplicates == NoDuplicates(data[1])

----------------------------------------------------------------------------
(* C5: a provider stuck on one timestamp *)

StuckRun == TickRun /\ provider.ticks.type = "fixed"

\* C5: against a provider that answers every call with the same N > 1 ticks of
\* one timestamp, request_tick_data issues at most two provider calls and has
\* returned after the second.
C5_StuckTerminates ==
    StuckRun =>
        /\ Len(calls[1]) <= 2
        /\ Len(calls[1]) = 2 => pc[1] = "ret"

C5_Witness ==
    /\ StuckRun
    /\ Len(calls[1]) = 2
    /\ pc[1] = "ret"
    /\ Len(data[1]) >= 2
    /\ Cardinality(SeqSet(TimesOf(data[1]))) = 1

----------------------------------------------------------------------------
(* C6: every iteration ends the loop or adds a record *)

\* C6: while a paginator loops, every provider call it has issued has added a
\* record the accumulator did not hold, and once it has returned it has issued
\* at most one call more than it holds distinct records.
C6_CallsBounded ==
    /\ pc[1] \in {"tick", "bar"} => Len(calls[1]) <= Cardinality(SeqSet(data[1]))
    /\ Len(calls[1]) <= Cardinality(SeqSet(data[1])) + 1

C6_Witness ==
    /\ provider.ticks.type = "any" \/ provider.bars.type = "any"
    /\ pc[1] = "ret"
    /\ Len(calls[1]) >= 3
    /\ Len(calls[1]) = Cardinality(SeqSet(data[1])) + 1

----------------------------------------------------------------------------
(* C7: every tick of the day *)

StoreTickRun == TickRun /\ provider.ticks.type = "store"

\* every tick of the day the provider holds has been returned
AllTicksOfDay ==
    \A i \in DOMAIN provider.ticks.recs :
        LocalDate(provider.ticks.recs[i].time, args.tz_name) = Date(1)
            => InSeq(provider.ticks.recs[i], data[1])

\* fewer than P of the provider's ticks fall within any one clock second
SparseTicks ==
    \A i \in DOMAIN provider.ticks.recs :
        Cardinality({j \in DOMAIN provider.ticks.recs :
            Strftime(provider.ticks.recs[j].time) =
            Strftime(provider.ticks.recs[i].time)}) < provider.ticks.P

\* C7 as stated: request_tick_data returns every tick of the day the provider
\* holds, however many share a timestamp or a second.
C7_NoGaps == StoreTickRun /\ pc[1] = "ret" => AllTicksOfDay

\* C7 amended: request_tick_data returns every tick of the day the provider
\* holds, provided fewer than P of the provider's ticks fall within any one
\* clock second.
C7_NoGapsWhenSparse == StoreTickRun /\ SparseTicks /\ pc[1] = "ret" => AllTicksOfDay

C7_Witness ==
    /\ StoreTickRun
    /\ SparseTicks
    /\ pc[1] = "ret"
    /\ Len(calls[1]) >= 3
    /\ Len(data[1]) >= 4
    /\ \E i, j \in DOMAIN data[1] :
          i # j /\ Strftime(data[1][i].time) = Strftime(data[1][j].time)

----------------------------------------------------------------------------
(* C8: every bar of the day *)

StoreBarRun == BarRun /\ provider.bars.type = "store"

\* C8: request_bar_data returns every bar of the day with volume that the
\* provider holds.
C8_AllBarsOfDay ==
    StoreBarRun /\ pc[1] = "ret" =>
        \A i \in DOMAIN provider.bars.recs :
            /\ provider.bars.recs[i].volume # 0
            /\ LocalDate(provider.bars.recs[i].date, args.tz_name) = Date(1)
            => InSeq(provider.bars.recs[i], data[1])

----------------------------------------------------------------------------
(* C9: no bar without volume *)

\* C9: the list request_bar_data accumulates, and so returns, holds no bar of
\* volume zero.
C9_NoZeroVolume ==
    BarRun => \A i \in DOMAIN data[1] : data[1][i].volume # 0

\* the last page mixed bars with and without volume and was cut at the boundary
C9_Witness ==
    /\ BarRun
    /\ pc[1] = "ret"
    /\ Len(calls[1]) >= 2
    /\ \E i \in DOMAIN response[1] : response[1][i].volume = 0
    /\ \E i \in DOMAIN response[1] :
          response[1][i].volume # 0 /\ ~InSeq(response[1][i], data[1])
    /\ \E i \in DOMAIN response[1] :
          response[1][i].volume # 0 /\ InSeq(response[1][i], data[1])

----------------------------------------------------------------------------
(* C11: a provider call that fails *)

\* the window with which run r has ended by an exception of the provider
FailedWindow(r) ==
    /\ pc[r] = "error"
    /\ outcomes[r] # <<>>
    /\ Last(outcomes[r]).outcome = "raised"
    /\ IsTickKind(Last(outcomes[r]).kind) \/ IsBarKind(Last(outcomes[r]).kind)

\* C11: a provider call that fails does not end the run: no run stands aborted
\* at a window whose provider call has failed while later windows of its
\* enumeration are left unprocessed.
C11_FailureDoesNotAbort ==
    \A r \in Runs : FailedWindow(r) => NextKind(r).pc = "done"

----------------------------------------------------------------------------
(* C12: nothing is written for a window whose provider call fails *)

\* the provider calls run r has issued for a window
CallsFor(r, w) ==
    {i \in DOMAIN calls[r] :
        /\ calls[r][i].instrument = w.instrument
        /\ calls[r][i].what = w.kind
        /\ calls[r][i].day = w.day}

\* C12: a run writes no partition for a window it has left by an exception,
\* whether the first provider call failed or a later one: the window has a
\* partition only if the other run has written it.
C12_NoPartialPartition ==
    \A r \in Runs : \A w \in EndedAs(r, "raised") :
        /\ w \notin WrittenBy(r)
        /\ CatalogExists(w.instrument, w.kind, w.day) =>
              \E o \in Runs \ {r} : w \in WrittenBy(o)

\* the provider has failed after a page of the window was accumulated
C12_Witness ==
    \E w \in EndedAs(1, "raised") :
        /\ Cardinality(CallsFor(1, w)) >= 2
        /\ ~CatalogExists(w.instrument, w.kind, w.day)
        /\ pc[1] = "error"

----------------------------------------------------------------------------
(* C13: a token of no kind among the kinds *)

\* the kinds of the run hold a token that is neither a tick kind nor a bar kind
BadKinds ==
    \E i \in DOMAIN args.kinds :
        ~IsTickKind(args.kinds[i]) /\ ~IsBarKind(args.kinds[i])

\* C13: a run whose kinds hold a token of no kind does no I/O: it writes neither
\* instrument nor partition and issues no provider call.
C13_BadKindNoIO ==
    BadKinds =>
        /\ writes = <<>>
        /\ catInstruments = {}
        /\ catPartitions = {}
        /\ \A r \in Runs : calls[r] = <<>>

----------------------------------------------------------------------------
(* C14: no instrument *)

\* C14: a run over an empty instrument list and a non-empty tuple of kinds does
\* not return as a run that has completed.
C14_NoInstrumentsRaises ==
    args.instruments = <<>> /\ args.kinds # <<>> =>
        \A r \in Runs : pc[r] # "done"

----------------------------------------------------------------------------
(* C15: a window nothing was fetched for *)

\* the windows run r has ended, one way or another
Ended(r) == {WindowOf(outcomes[r][i]) : i \in DOMAIN outcomes[r]}

\* C15: for a window whose paginator returned no record the first run writes no
\* partition and raises no exception, so that the second run, once it has dealt
\* with the window, has queried the provider for it again.
C15_EmptyNotWritten ==
    \A w \in EndedAs(1, "skipped-empty") :
        /\ w \notin WrittenBy(1)
        /\ CatalogExists(w.instrument, w.kind, w.day) => w \in WrittenBy(2)
        /\ pc[1] = "error" => WindowOf(Last(outcomes[1])) # w
        /\ w \in Ended(2) => w \in CalledBy(2)

\* the second run has fetched and written what the first run found empty
C15_Witness ==
    \E w \in EndedAs(1, "skipped-empty") :
        /\ w \in WrittenBy(2)
        /\ w \in EndedAs(2, "written")
        /\ pc[2] = "done"

----------------------------------------------------------------------------
(* C16: how the windows of a run end *)

\* the windows of a run in the order of the three for loops
Enumerated ==
    LET I == Len(args.instruments)
        K == Len(args.kinds)
    IN  [n \in 1..(Len(Days) * I * K) |->
            [instrument |-> args.instruments[(((n - 1) \div K) % I) + 1],
             kind |-> args.kinds[((n - 1) % K) + 1],
             day |-> Days[((n - 1) \div (K * I)) + 1]]]

\* run r ends a window in this step
EndsWindow(r) == Len(outcomes'[r]) = Len(outcomes[r]) + 1

\* C16: a run that has returned has ended every window of its enumeration
\* once, in order, as written, skipped-existing, skipped-empty or failed; a
\* window ends skipped-existing iff its partition exists when it is checked,
\* written iff its partition is absent and the paginator has returned a record,
\* which is then its partition, skipped-empty iff its partition is absent and
\* the paginator has returned none; no run writes a window twice.
C16_OneOutcomePerWindow ==
    /\ [](\A r \in Runs :
            /\ pc[r] = "done" =>
                  /\ Len(outcomes[r]) = Len(Enumerated)
                  /\ \A n \in DOMAIN outcomes[r] :
                        /\ WindowOf(outcomes[r][n]) = Enumerated[n]
                        /\ outcomes[r][n].outcome \in
                             {"written", "skipped-existing", "skipped-empty", "failed"}
            /\ \A i, j \in DOMAIN writes :
                  /\ writes[i].run = r /\ writes[j].run = r
                  /\ writes[i].kind # INSTRUMENT
                  /\ WindowOf(writes[i]) = WindowOf(writes[j])
                  => i = j)
    /\ [][\A r \in Runs :
            EndsWindow(r) =>
               LET o == outcomes'[r][Len(outcomes'[r])] IN
               /\ WindowOf(o) = Window(r)
               /\ o.outcome = "skipped-existing" <=>
                     (pc[r] = "kind" /\ CatalogExists(o.instrument, o.kind, o.day))
               /\ o.outcome = "written" <=>
                     /\ pc[r] = "ret"
                     /\ data[r] # <<>>
                     /\ ~CatalogExists(o.instrument, o.kind, o.day)
               /\ o.outcome = "written" <=>
                     /\ writes' = Append(writes, [run |-> r, instrument |-> o.instrument,
                                                  kind |-> o.kind, day |-> o.day])
                     /\ \E p \in catPartitions' \ catPartitions : WindowOf(p) = WindowOf(o)
               /\ o.outcome = "skipped-empty" <=>
                     /\ pc[r] = "ret"
                     /\ data[r] = <<>>
                     /\ ~CatalogExists(o.instrument, o.kind, o.day)]_vars

\* a run has returned with windows ended in each of the three ways
C16_Witness ==
    /\ pc[2] = "done"
    /\ EndedAs(2, "written") # {}
    /\ EndedAs(2, "skipped-existing") # {}
    /\ EndedAs(2, "skipped-empty") # {}
    /\ Len(Enumerated) >= 4

----------------------------------------------------------------------------
(* C17: the days of a run *)

\* the days run r has checked the catalog for, queried the provider for or
\* written a partition of, in the order of its log
DaysEnded(r) == [i \in DOMAIN outcomes[r] |-> outcomes[r][i].day]

\* C17: every day a run checks the catalog for, queries the provider for or
\* writes to the catalog is a Monday-to-Friday day of [start_date, end_date];
\* the run goes through the days in ascending order, and once it has returned
\* it has dealt with every such day of the range.
C17_WeekdaysOnly ==
    /\ \A i \in DOMAIN writes : writes[i].day \in Weekdays
    /\ \A r \in Runs :
          /\ \A i \in DOMAIN calls[r] : calls[r][i].day \in Weekdays
          /\ \A i \in DOMAIN outcomes[r] : outcomes[r][i].day \in Weekdays
          /\ \A i, j \in DOMAIN outcomes[r] :
                i < j => DaysEnded(r)[i] <= DaysEnded(r)[j]
          /\ pc[r] \in {"instrument", "kind", "tick", "bar", "ret"} =>
                /\ Date(r) \in Weekdays
                /\ \A i \in DOMAIN outcomes[r] : DaysEnded(r)[i] <= Date(r)
          /\ pc[r] = "done" /\ args.instruments # <<>> =>
                SeqSet(DaysEnded(r)) = Weekdays

\* a run over a Friday, a weekend and a Monday has returned
C17_Witness ==
    /\ pc[1] = "done"
    /\ args.start_date = 4
    /\ args.end_date >= 7
    /\ SeqSet(DaysEnded(1)) = {4, 7}
    /\ \E i \in DOMAIN writes : writes[i].day = 7 /\ writes[i].kind # INSTRUMENT

----------------------------------------------------------------------------
(* C18: the metadata of an instrument *)

\* the writes of instrument metadata
InstrumentWrites == {i \in DOMAIN writes : writes[i].kind = INSTRUMENT}

\* C18: the metadata of an instrument is written at most once, by a run that
\* reaches the instrument while the catalog does not hold it; the catalog holds
\* it from then on, so that an instrument the catalog holds when a run starts
\* is never written by the run.
C18_InstrumentWrittenOnce ==
    /\ [](\A i, j \in InstrumentWrites :
             writes[i].instrument = writes[j].instrument => i = j)
    /\ [][/\ catInstruments \subseteq catInstruments'
          /\ \A i \in DOMAIN writes' \ DOMAIN writes :
                writes'[i].kind = INSTRUMENT =>
                   /\ pc[writes'[i].run] = "instrument"
                   /\ writes'[i].instrument = Instrument(writes'[i].run)
                   /\ writes'[i].instrument \notin catInstruments
                   /\ writes'[i].instrument \in catInstruments']_vars

\* the first run wrote one instrument and was aborted, the second run wrote the
\* other and went through both instruments on two days
C18_Witness ==
    /\ pc[1] = "error"
    /\ pc[2] = "done"
    /\ Len(args.instruments) = 2
    /\ Len(Days) = 2
    /\ \E i, j \in InstrumentWrites :
          /\ writes[i].run = 1 /\ writes[i].instrument = "A"
          /\ writes[j].run = 2 /\ writes[j].instrument = "B"

----------------------------------------------------------------------------
(* C19: two runs at the same time *)

\* C19: of two runs that work on the same window at the same time, at most one
\* writes the partition of the window, and a window that is written has been
\* fetched from the provider by one of them only.
C19_WindowFetchedOnce ==
    /\ WrittenBy(1) \cap WrittenBy(2) = {}
    /\ \A w \in WrittenBy(1) \cup WrittenBy(2) :
          ~(w \in CalledBy(1) /\ w \in CalledBy(2))

----------------------------------------------------------------------------
(* C20: the length of a trade id *)

\* the characters of "<seconds of ts_event>-<price>-<size>"
TradeIdLength ==
    (IF Len(trade_id.ts_event) <= 9 THEN 1 ELSE Len(trade_id.ts_event) - 9)
    + 1 + Len(trade_id.price) + 1 + Len(trade_id.size)

\* C20: generate_trade_id either returns the id of the whole string
\* "<seconds of ts_event>-<price>-<size>", which is then shorter than 36
\* characters, or raises an AssertionError; it returns no id of 36 characters
\* or more and none that is cut short.
C20_TradeIdShortOrRaises ==
    trade_id.state = "ended" =>
        IF trade_id.result.returned
        THEN /\ Len(trade_id.result.id.value) < 36
             /\ Len(trade_id.result.id.value) = TradeIdLength
             /\ SubSeq(trade_id.result.id.value,
                       TradeIdLength - Len(trade_id.size) + 1, TradeIdLength)
                   = trade_id.size
        ELSE /\ trade_id.result.raised = "AssertionError"
             /\ TradeIdLength >= 36

\* the string of a call has 36 characters, and the call has raised
C20_Witness ==
    /\ trade_id.state = "ended"
    /\ TradeIdLength = 36
    /\ ~trade_id.result.returned
    /\ Len(trade_id.ts_event) = 19

----------------------------------------------------------------------------
(* C21: parse_response_datetime *)

\* the instant a datetime denotes, a naive one read as wall clock of tz_name
InstantOf(dt, tz_name) ==
    dt.wall - UtcOffset(IF dt.zone = "naive" THEN tz_name ELSE dt.zone)

\* C21: parse_response_datetime returns a datetime of zone tz_name that denotes
\* the instant of its input, a naive input read as wall clock of tz_name, so
\* that the calendar date of the result is the date of that instant in tz_name.
C21_ConvertedToTz ==
    parsed.state = "ended" =>
        /\ parsed.result.zone = parsed.tz_name
        /\ InstantOf(parsed.result, parsed.tz_name)
              = InstantOf(parsed.dt, parsed.tz_name)
        /\ DateOf(parsed.result)
              = LocalDate(InstantOf(parsed.dt, parsed.tz_name), parsed.tz_name)

----------------------------------------------------------------------------
(* The queries of a paginator and what their pages added *)

\* the cursor of the n-th provider query of the paginator
Cursor(n) == calls[1][n].cursor

\* the records the paginator appended between its n-th query and the next
AppendedAfter(n) ==
    SubSeq(data[1], calls[1][n].seen + 1,
           IF n < Len(calls[1]) THEN calls[1][n + 1].seen ELSE Len(data[1]))

\* the UTC instant of local midnight at the start of the day
DayStart == Date(1) * OneDay - UtcOffset(args.tz_name)

----------------------------------------------------------------------------
(* C22: the cursor after a page of one timestamp *)

\* C22: a tick query that follows a page whose appended records all carry one
\* timestamp starts one second after that timestamp, whatever the timestamps
\* of the pages before.
C22_StepAfterStuckPage ==
    TickRun =>
        \A n \in 1..(Len(calls[1]) - 1) :
            LET page == AppendedAfter(n)
            IN  page # <<>> /\ Cardinality(SeqSet(TimesOf(page))) = 1
                => Cursor(n + 1) = page[1].time + OneSecond

----------------------------------------------------------------------------
(* C23: the cursor after a page of several timestamps *)

\* C23: a tick query that follows a page whose appended records carry more than
\* one timestamp starts at the timestamp of the last record accumulated, with
\* nothing added.
C23_ResumeAtLast ==
    TickRun =>
        \A n \in 1..(Len(calls[1]) - 1) :
            LET page == AppendedAfter(n)
            IN  Cardinality(SeqSet(TimesOf(page))) > 1
                => /\ Cursor(n + 1) = data[1][calls[1][n + 1].seen].time
                   /\ Cursor(n + 1) = Last(page).time

\* the third query follows a second page of two timestamps
C23_Witness ==
    /\ TickRun
    /\ Len(calls[1]) >= 3
    /\ Cardinality(SeqSet(TimesOf(AppendedAfter(2)))) = 2
    /\ Cursor(3) = Last(AppendedAfter(2)).time

----------------------------------------------------------------------------
(* C24: the first cursor of request_tick_data *)

\* C24: the first tick query, and any tick query issued while nothing is
\* accumulated, starts at the UTC instant of local midnight at the start of the
\* window's day in the time zone of the run, and that instant is what the
\* provider is sent.
C24_FirstCursorDayStart ==
    TickRun =>
        /\ calls[1] # <<>> => calls[1][1].seen = 0
        /\ \A n \in DOMAIN calls[1] :
              calls[1][n].seen = 0 =>
                 /\ Cursor(n) = DayStart
                 /\ calls[1][n].time = DayStart

\* a run of a time zone behind UTC has issued its first query
C24_Witness ==
    /\ TickRun
    /\ args.tz_name = "EST"
    /\ Len(calls[1]) = 1
    /\ Cursor(1) = 66

----------------------------------------------------------------------------
(* The step of a tick query *)

\* the paginator issues a tick query in this step
TickQueryStep == TickRun /\ Len(calls'[1]) = Len(calls[1]) + 1

\* the records of the page the query is answered with that are not accumulated
NewOfPage == SelectSeq(response'[1], LAMBDA t : ~InSeq(t, data[1]))

\* the page has no new record, or its last new record is stamped before the cursor
StalePage ==
    NewOfPage = <<>> \/ Last(NewOfPage).time < Last(calls'[1]).cursor

----------------------------------------------------------------------------
(* C25: the end of the loop of request_tick_data *)

\* C25: a page without a new record, or whose last new record is stamped
\* strictly before the cursor of its query, ends request_tick_data with the
\* accumulator as it was; any other page is appended from, and the loop goes on
\* unless the last new record is of another day; no query is issued once the
\* loop has ended.
C25_StopOnStalePage ==
    [][/\ TickQueryStep =>
             /\ pc[1] = "tick"
             /\ StalePage => pc'[1] = "ret" /\ data'[1] = data[1]
             /\ ~StalePage =>
                   \/ pc'[1] = "tick" /\ data'[1] # data[1]
                   \/ /\ pc'[1] = "ret"
                      /\ LocalDate(Last(NewOfPage).time, args.tz_name) # Date(1)
       /\ pc[1] = "ret" => calls'[1] = calls[1]]_vars

\* after a page was appended, a page whose new record is of the day and
\* stamped before the cursor has ended the loop
C25_Witness ==
    /\ TickRun
    /\ pc[1] = "ret"
    /\ Len(calls[1]) >= 2
    /\ \E i \in DOMAIN response[1] :
          /\ ~InSeq(response[1][i], data[1])
          /\ response[1][i].time < Last(calls[1]).cursor
          /\ LocalDate(response[1][i].time, args.tz_name) = Date(1)

----------------------------------------------------------------------------
(* C26: the boundary of the day in request_tick_data *)

\* the new records of the page that are of the window's day
NewOfDay ==
    SelectSeq(NewOfPage, LAMBDA t : LocalDate(t.time, args.tz_name) = Date(1))

\* what C26 says of a page with a new record: a last new record of another day
\* appends the new records of the day and ends the loop, one of the day appends
\* all new records and lets the loop go on
BoundaryRule ==
    IF LocalDate(Last(NewOfPage).time, args.tz_name) # Date(1)
    THEN pc'[1] = "ret" /\ data'[1] = data[1] \o NewOfDay
    ELSE pc'[1] = "tick" /\ data'[1] = data[1] \o NewOfPage

\* C26 as stated: the rule holds for every page with a new record.
C26_BoundaryAlways ==
    [][TickQueryStep /\ NewOfPage # <<>> => BoundaryRule]_vars

\* C26 amended: the rule holds for every page with a new record whose last new
\* record is stamped at or after the cursor of the query; a page whose last new
\* record is stamped before the cursor appends nothing and ends the loop.
C26_BoundaryUnlessStale ==
    [][TickQueryStep /\ NewOfPage # <<>> =>
          IF StalePage THEN pc'[1] = "ret" /\ data'[1] = data[1]
          ELSE BoundaryRule]_vars

\* the last page held new records of the day and of the day after, and the
\* records of the day were appended
C26_Witness ==
    /\ TickRun
    /\ pc[1] = "ret"
    /\ Len(calls[1]) >= 2
    /\ AppendedAfter(Len(calls[1])) # <<>>
    /\ LocalDate(Last(response[1]).time, args.tz_name) = Date(1) + 1
    /\ Last(response[1]).time >= Last(calls[1]).cursor
    /\ ~InSeq(Last(response[1]), data[1])

----------------------------------------------------------------------------
(* C27: the first end-instant of request_bar_data *)

----------------------------------------------------------------------------
(* C28: the end-instant after a page of bars *)

\* the earliest instant the bars are stamped with
Earliest(bars) ==
    CHOOSE t \in {bars[i].date : i \in DOMAIN bars} :
        \A i \in DOMAIN bars : t <= bars[i].date

\* C28: a bar query that follows a page whose qualifying bars were all appended
\* ends at the earliest instant those bars are stamped with, in whatever order
\* the provider has returned them.
C28_NextEndEarliest ==
    BarRun =>
        \A n \in 1..(Len(calls[1]) - 1) :
            AppendedAfter(n) # <<>> => Cursor(n + 1) = Earliest(AppendedAfter(n))

----------------------------------------------------------------------------
(* C29: the boundary of the day in request_bar_data *)

\* the paginator issues a bar query in this step
BarQueryStep == BarRun /\ Len(calls'[1]) = Len(calls[1]) + 1

\* the bars of the page the query is answered with that qualify: not
\* accumulated, and of some volume
QualifyingOfPage ==
    SelectSeq(response'[1], LAMBDA b : ~InSeq(b, data[1]) /\ b.volume # 0)

\* the qualifying bars of the page that are of the window's day
QualifyingOfDay ==
    SelectSeq(QualifyingOfPage, LAMBDA b : LocalDate(b.date, args.tz_name) = Date(1))

\* C29: when the earliest qualifying bar of a page, which the provider returns
\* oldest first, is of another day than the window's in the time zone of the
\* run, exactly the qualifying bars of the window's day in that time zone are
\* appended and the loop ends, in whatever zone the bars are stamped.
C29_BarBoundaryByRunZone ==
    [][/\ BarQueryStep
       /\ QualifyingOfPage # <<>>
       /\ QualifyingOfPage[1].date = Earliest(QualifyingOfPage)
       /\ LocalDate(Earliest(QualifyingOfPage), args.tz_name) # Date(1)
       => /\ pc'[1] = "ret"
          /\ data'[1] = data[1] \o QualifyingOfDay]_vars

----------------------------------------------------------------------------
(* C30: the cursors of request_tick_data *)

\* C30: no tick query of an invocation starts before the query before it,
\* whatever pages the provider answers with: neither the cursor nor the instant
\* sent to the provider ever goes back.
C30_CursorsNeverGoBack ==
    TickRun =>
        \A n \in 1..(Len(calls[1]) - 1) :
            /\ Cursor(n) <= Cursor(n + 1)
            /\ calls[1][n].time <= calls[1][n + 1].time

\* three queries, each starting after the one before, the second page not in
\* time order
C30_Witness ==
    /\ TickRun
    /\ Len(calls[1]) >= 3
    /\ Cursor(1) < Cursor(2)
    /\ Cursor(2) < Cursor(3)
    /\ \E i, j \in DOMAIN data[1] : i < j /\ data[1][i].time > data[1][j].time

----------------------------------------------------------------------------
(* C31: the end-instants of request_bar_data *)

\* the provider answers the query of this step with bars stamped at or before
\* the end-instant it is sent
PageUpToEnd ==
    \A i \in DOMAIN response'[1] : response'[1][i].date <= Last(calls'[1]).time

\* C31: against a provider that returns only bars stamped at or before the
\* end-instant of the query, no bar query of an invocation ends later than the
\* query before it, and none ends later than the end of the window's day; a
\* page of such bars never moves the end-instant forward.
C31_EndsNeverGoForward ==
    /\ [](StoreBarRun =>
            /\ \A n \in DOMAIN calls[1] :
                  /\ Cursor(n) <= DayStart + OneDay
                  /\ calls[1][n].time <= DayStart + OneDay
            /\ \A n \in 1..(Len(calls[1]) - 1) :
                  /\ Cursor(n + 1) <= Cursor(n)
                  /\ calls[1][n + 1].time <= calls[1][n].time)
    /\ [][BarQueryStep /\ PageUpToEnd => end_time'[1] <= end_time[1]]_vars

\* three queries of a walk back through the day, each ending before the last
C31_Witness ==
    /\ StoreBarRun
    /\ Len(calls[1]) >= 3
    /\ Cursor(3) < Cursor(2)
    /\ Cursor(2) < Cursor(1)

----------------------------------------------------------------------------
(* C32: the partitions of the catalog and its instruments *)

\* C32: in every state of a run, also of a run that starts from the catalog
\* another run has left and of a run that is aborted, every partition of the
\* catalog is of an instrument the catalog holds, and the metadata of the
\* instrument was written before any partition of the instrument.
C32_PartitionsOfRegistered ==
    /\ \A p \in catPartitions : p.instrument \in catInstruments
    /\ \A j \in DOMAIN writes :
          writes[j].kind # INSTRUMENT =>
             \E i \in InstrumentWrites :
                i < j /\ writes[i].instrument = writes[j].instrument

\* the first run was aborted after it wrote a partition, and the second run,
\* starting from what it left, has written a partition of another instrument
C32_Witness ==
    /\ pc[1] = "error"
    /\ WrittenBy(1) # {}
    /\ \E w \in WrittenBy(2) : \A v \in WrittenBy(1) : w.instrument # v.instrument

====
